---------------------------- MODULE Spec2Model ----------------------------
(***************************************************************************)
(* Model of the RealtimeTTS + Kokoro streaming service (src/app.py).       *)
(*                                                                         *)
(* State: the module-level engine cache ENGINES and its ENGINE_LOCK, the   *)
(* lifespan() context manager, and, per HTTP request, the position of the  *)
(* stream_tts_bytes generator, its local queue q, its local event done and *)
(* the synthesis session that drives the on_chunk / on_stop callbacks.     *)
(*                                                                         *)
(* Scheduling: coroutines are interleaved at their await expressions       *)
(* (await get_engine, async with ENGINE_LOCK, await wait_for, yield); the  *)
(* session callbacks run on the worker thread play_async() starts and may  *)
(* interleave with every coroutine step.  No critical section of          *)
(* ENGINE_LOCK contains an await, so letting another task run between the  *)
(* acquisition of the lock and the block it guards only adds interleavings *)
(* to those of the asyncio event loop.                                     *)
(*                                                                         *)
(* The session is the external TextToAudioStream: it calls on_audio_chunk  *)
(* any number of times and then on_audio_stream_stop once, or dies before  *)
(* that.  KokoroEngine(lang_code=...) either returns an instance or        *)
(* raises.  "c" stands for any lang outside PRELOAD_LANGS.                 *)
(***************************************************************************)
EXTENDS Integers, Sequences, FiniteSets, TLC

(* ---- bounds of the model ---- *)
NumRequests == 2
MaxChunks == 2

(* ---- program constants ---- *)
Langs == {"a", "b", "c"}
PRELOAD_LANGS == <<"a", "b">>

Requests == 1..NumRequests
NoEngine == 0
NoLang == "-"
LockFree == -1
LifespanTask == 0

VARIABLES
    server,     \* the ASGI application: "starting", "serving", "stopped"
    ENGINES,    \* lang -> engine instance (NoEngine: the key is absent)
    ENGINE_LOCK,\* LockFree, or the task holding the lock
    lifespan,   \* position of the lifespan() context manager
    li,         \* index into PRELOAD_LANGS of the preload loop
    nbuilt,     \* KokoroEngine instances constructed so far (instance ids)
    built,      \* lang -> number of successful KokoroEngine(lang) calls
    failures,   \* lang -> number of KokoroEngine(lang) calls that raised
    cleared,    \* ENGINES.clear() has run
    pc,         \* request -> position of its handler / generator
    lang,       \* request -> the lang query parameter
    resp,       \* request -> what the client has received so far
    engine,     \* request -> the local variable engine of stream_tts_bytes
    how,        \* request -> the return of get_engine that produced engine
    q,          \* request -> the local asyncio.Queue
    done,       \* request -> the local asyncio.Event
    sess,       \* request -> the TextToAudioStream session of the request
    enq,        \* request -> every chunk its session passed to on_chunk
    yielded,    \* request -> every chunk its generator yielded
    query,      \* request -> the query string it sent (<<>>: none yet)
    args,       \* request -> the arguments bound for tts() (<<>>: none)
    registry,   \* the plugin registry: the registered names, in order
    fres        \* the outcome of the last TTSFactory.create call (<<>>: none)

poolVars == <<ENGINES, ENGINE_LOCK, nbuilt, built, failures, cleared>>
lifeVars == <<lifespan, li>>
reqVars == <<pc, lang, resp, engine, how>>
bridgeVars == <<q, done, sess, enq, yielded>>
apiVars == <<query, args>>
factoryVars == <<registry, fres>>
vars == <<server, ENGINES, ENGINE_LOCK, lifespan, li, nbuilt, built, failures,
          cleared, pc, lang, resp, engine, how, q, done, sess, enq, yielded,
          query, args, registry, fres>>

Init ==
    /\ server = "starting"
    /\ ENGINES = [l \in Langs |-> NoEngine]
    /\ ENGINE_LOCK = LockFree
    /\ lifespan = "unentered"
    /\ li = 1
    /\ nbuilt = 0
    /\ built = [l \in Langs |-> 0]
    /\ failures = [l \in Langs |-> 0]
    /\ cleared = FALSE
    /\ pc = [r \in Requests |-> "idle"]
    /\ lang = [r \in Requests |-> NoLang]
    /\ resp = [r \in Requests |-> "none"]
    /\ engine = [r \in Requests |-> NoEngine]
    /\ how = [r \in Requests |-> "none"]
    /\ q = [r \in Requests |-> <<>>]
    /\ done = [r \in Requests |-> FALSE]
    /\ sess = [r \in Requests |-> "none"]
    /\ enq = [r \in Requests |-> <<>>]
    /\ yielded = [r \in Requests |-> <<>>]
    /\ query = [r \in Requests |-> <<>>]
    /\ args = [r \in Requests |-> <<>>]
    /\ registry = <<>>
    /\ fres = <<>>

(***************************************************************************)
(* The event loop.  KokoroEngine(lang_code=...) is an ordinary call made   *)
(* inside the coroutine get_engine: while it runs, the thread of the event *)
(* loop is inside the constructor and no coroutine, timer or handler runs. *)
(* The sessions have threads of their own.                                 *)
(***************************************************************************)
EventLoopFree == \A r \in Requests : pc[r] # "constructing"

(***************************************************************************)
(* Engine pool: KokoroEngine construction and the cache tests.             *)
(***************************************************************************)

\* the unlocked test left out: every call goes on to the lock
InCacheNever(E, l) == FALSE

\* lang_code in ENGINES (line 22)
InCache(E, l) == E[l] # NoEngine

\* the re-check left out: construct whenever the lock is obtained
NeedsConstructAlways(E, l) == TRUE

\* lang_code not in ENGINES, the re-check under the lock (line 26)
NeedsConstruct(E, l) == E[l] = NoEngine

\* the preload loop without its test: every hot lang is built and stored
PreloadNeedsAlways(E, l) == TRUE

\* lang not in ENGINES, the test of the preload loop (line 35)
PreloadNeeds(E, l) == E[l] = NoEngine

\* ENGINES rebound to a new dict that holds the new instance only
StoreEngineFresh(E, l, inst) == [x \in Langs |-> IF x = l THEN inst ELSE NoEngine]

\* ENGINES[lang] = KokoroEngine(lang_code=lang) when the constructor returns
StoreEngine(E, l, inst) == [E EXCEPT ![l] = inst]

\* a placeholder entry stored before the constructor runs and left behind
EnginesKeepPlaceholder(E, l) == [E EXCEPT ![l] = -1]

\* the same statement when the constructor raises: the assignment never runs
EnginesAfterFailure(E, l) == E

\* an exception that leaves the critical section with the lock still held
KeepLockOnRaise(holder) == holder

\* async with ENGINE_LOCK: __aexit__ releases the lock when the body raises
ReleaseOnRaise(holder) == LockFree

\* ENGINES.clear() (line 41)
ClearEngines(E) == [l \in Langs |-> NoEngine]

(***************************************************************************)
(* The ASGI application.  app = FastAPI(title=...) is built without a      *)
(* lifespan argument, so serving starts and stops without entering         *)
(* lifespan().                                                             *)
(***************************************************************************)
AppStartup ==
    /\ EventLoopFree
    /\ server = "starting"
    /\ server' = "serving"
    /\ UNCHANGED <<apiVars, factoryVars, poolVars, lifeVars, reqVars, bridgeVars>>

AppShutdown ==
    /\ EventLoopFree
    /\ server = "serving"
    /\ \A r \in Requests : pc[r] \in {"idle", "finished", "failed"}
    /\ server' = "stopped"
    /\ UNCHANGED <<apiVars, factoryVars, poolVars, lifeVars, reqVars, bridgeVars>>


(***************************************************************************)
(* lifespan(): preload under the lock, yield, clear under the lock.  It is *)
(* entered only by a caller that uses the context manager directly.        *)
(***************************************************************************)

\* async with ENGINE_LOCK (line 33)
LifespanAcquire ==
    /\ EventLoopFree
    /\ lifespan = "unentered"
    /\ ENGINE_LOCK = LockFree
    /\ ENGINE_LOCK' = LifespanTask
    /\ lifespan' = "preload"
    /\ li' = 1
    /\ UNCHANGED <<apiVars, factoryVars, server, ENGINES, nbuilt, built, failures, cleared,
                   reqVars, bridgeVars>>

\* one iteration of the loop whose KokoroEngine(lang_code=lang) returns
\* (lines 34-37)
LifespanPreloadBuild ==
    /\ EventLoopFree
    /\ lifespan = "preload"
    /\ li <= Len(PRELOAD_LANGS)
    /\ PreloadNeeds(ENGINES, PRELOAD_LANGS[li])
    /\ nbuilt' = nbuilt + 1
    /\ ENGINES' = StoreEngine(ENGINES, PRELOAD_LANGS[li], nbuilt + 1)
    /\ built' = [built EXCEPT ![PRELOAD_LANGS[li]] = @ + 1]
    /\ li' = li + 1
    /\ UNCHANGED <<apiVars, factoryVars, server, ENGINE_LOCK, lifespan, failures, cleared,
                   reqVars, bridgeVars>>

\* one iteration of the loop whose KokoroEngine(lang_code=lang) raises: the
\* exception leaves the async with block, which releases the lock
LifespanPreloadFail ==
    /\ EventLoopFree
    /\ lifespan = "preload"
    /\ li <= Len(PRELOAD_LANGS)
    /\ PreloadNeeds(ENGINES, PRELOAD_LANGS[li])
    /\ ENGINES' = EnginesAfterFailure(ENGINES, PRELOAD_LANGS[li])
    /\ failures' = [failures EXCEPT ![PRELOAD_LANGS[li]] = @ + 1]
    /\ ENGINE_LOCK' = ReleaseOnRaise(ENGINE_LOCK)
    /\ lifespan' = "failed"
    /\ UNCHANGED <<apiVars, factoryVars, server, li, nbuilt, built, cleared, reqVars, bridgeVars>>

\* one iteration of the loop for a lang already in ENGINES (line 35 false)
LifespanPreloadSkip ==
    /\ EventLoopFree
    /\ lifespan = "preload"
    /\ li <= Len(PRELOAD_LANGS)
    /\ ~PreloadNeeds(ENGINES, PRELOAD_LANGS[li])
    /\ li' = li + 1
    /\ UNCHANGED <<apiVars, factoryVars, server, poolVars, lifespan, reqVars, bridgeVars>>

\* end of the loop: the lock is released, then the yield (lines 38-39)
LifespanYield ==
    /\ EventLoopFree
    /\ lifespan = "preload"
    /\ li > Len(PRELOAD_LANGS)
    /\ ENGINE_LOCK' = LockFree
    /\ lifespan' = "yielded"
    /\ UNCHANGED <<apiVars, factoryVars, server, ENGINES, li, nbuilt, built, failures, cleared,
                   reqVars, bridgeVars>>

\* the caller leaves the context: async with ENGINE_LOCK (line 40)
LifespanShutdownAcquire ==
    /\ EventLoopFree
    /\ lifespan = "yielded"
    /\ ENGINE_LOCK = LockFree
    /\ ENGINE_LOCK' = LifespanTask
    /\ lifespan' = "clearing"
    /\ UNCHANGED <<apiVars, factoryVars, server, ENGINES, li, nbuilt, built, failures, cleared,
                   reqVars, bridgeVars>>

\* ENGINES.clear() and the release of the lock (lines 41-42)
LifespanClear ==
    /\ EventLoopFree
    /\ lifespan = "clearing"
    /\ ENGINES' = ClearEngines(ENGINES)
    /\ cleared' = TRUE
    /\ ENGINE_LOCK' = LockFree
    /\ lifespan' = "exited"
    /\ UNCHANGED <<apiVars, factoryVars, server, li, nbuilt, built, failures, reqVars, bridgeVars>>

(***************************************************************************)
(* GET /tts: tts() builds the generator and hands it to StreamingResponse, *)
(* which sends the status line and the headers and only then pulls the     *)
(* generator for the first time.                                           *)
(***************************************************************************)

\* tts() (lines 89-104): the generator object is created, its body not run
Tts(r) ==
    /\ EventLoopFree
    /\ server = "serving"
    /\ pc[r] = "idle"
    /\ \E l \in Langs : lang' = [lang EXCEPT ![r] = l]
    /\ pc' = [pc EXCEPT ![r] = "created"]
    /\ UNCHANGED <<apiVars, factoryVars, server, poolVars, lifeVars, resp, engine, how, bridgeVars>>

\* StreamingResponse(generator, media_type="audio/pcm", headers=...): the
\* response starts (200 and the X-Audio headers), then the first pull runs
\* the generator up to await get_engine(lang) (line 51)
ResponseStart(r) ==
    /\ EventLoopFree
    /\ pc[r] = "created"
    /\ resp' = [resp EXCEPT ![r] = "200"]
    /\ pc' = [pc EXCEPT ![r] = "ge_check"]
    /\ UNCHANGED <<apiVars, factoryVars, server, poolVars, lifeVars, lang, engine, how, bridgeVars>>

(***************************************************************************)
(* GET /tts with its query string: the Query(...) declarations of tts()    *)
(* validate the parameters and bind the defaults before the body runs.  A  *)
(* parameter is <<>> when the query string lacks it and <<v>> when it      *)
(* carries the value v; text is a sequence of characters and speed is in   *)
(* hundredths (0.5 is 50).  Tts(r) above is the accepting case of          *)
(* TtsRequest(r) with everything but lang left out.                        *)
(***************************************************************************)
MinTextLen == 1
MinSpeed == 50
MaxSpeed == 200
DefaultSpeed == 100
DefaultVoice == "af_heart"
DefaultLang == "a"

TextValues == {<<>>, <<"h">>, <<"h", "i">>}
SpeedValues == {49, 50, 200, 201}
VoiceValues == {"bf_emma"}
LangValues == {"c"}

Optional(S) == {<<>>} \cup {<<v>> : v \in S}

AllQueries ==
    [text : Optional(TextValues), voice : Optional(VoiceValues),
     lang : Optional(LangValues), speed : Optional(SpeedValues)]

\* the queries sent: every text with every speed, and every voice with every
\* lang
Queries ==
    {qr \in AllQueries :
        \/ qr.voice = <<>> /\ qr.lang = <<>>
        \/ qr.text = <<<<"h">>>> /\ qr.speed = <<>>}

\* the bounds taken as exclusive (gt / lt)
SpeedInRangeExclusive(v) == MinSpeed < v /\ v < MaxSpeed

\* Query(1.0, ge=0.5, le=2.0) (line 93)
SpeedInRange(v) == MinSpeed <= v /\ v <= MaxSpeed

\* Query(..., min_length=1) (line 90): required, at least one character
TextValid(t) == t # <<>> /\ Len(t[1]) >= MinTextLen

\* the validation of the four parameters (lines 90-93)
Accepts(qr) ==
    /\ TextValid(qr.text)
    /\ qr.speed # <<>> => SpeedInRange(qr.speed[1])

\* the value a parameter is bound to: the one sent, or the default
Bound(opt, default) == IF opt = <<>> THEN default ELSE opt[1]

\* the arguments tts() is called with (lines 90-93)
Bind(qr) ==
    [text |-> qr.text[1],
     voice |-> Bound(qr.voice, DefaultVoice),
     lang |-> Bound(qr.lang, DefaultLang),
     speed |-> Bound(qr.speed, DefaultSpeed)]

\* a request that passes validation: tts() runs (lines 89-104)
TtsAccept(r, qr) ==
    /\ Accepts(qr)
    /\ args' = [args EXCEPT ![r] = <<Bind(qr)>>]
    /\ lang' = [lang EXCEPT ![r] = Bind(qr).lang]
    /\ pc' = [pc EXCEPT ![r] = "created"]
    /\ UNCHANGED resp

\* a request that fails validation: 422, tts() is not called
TtsReject(r, qr) ==
    /\ ~Accepts(qr)
    /\ resp' = [resp EXCEPT ![r] = "422"]
    /\ pc' = [pc EXCEPT ![r] = "rejected"]
    /\ UNCHANGED <<args, lang>>

TtsRequest(r) ==
    /\ EventLoopFree
    /\ server = "serving"
    /\ pc[r] = "idle"
    /\ \E qr \in Queries :
          /\ query' = [query EXCEPT ![r] = <<qr>>]
          /\ TtsAccept(r, qr) \/ TtsReject(r, qr)
    /\ UNCHANGED <<factoryVars, server, poolVars, lifeVars, engine, how,
                   bridgeVars>>

(***************************************************************************)
(* get_engine(lang_code) as called by request r.                           *)
(***************************************************************************)

\* the unlocked test succeeds: return ENGINES[lang_code] (lines 22-23)
GetEngineFast(r) ==
    /\ EventLoopFree
    /\ pc[r] = "ge_check"
    /\ InCache(ENGINES, lang[r])
    /\ engine' = [engine EXCEPT ![r] = ENGINES[lang[r]]]
    /\ how' = [how EXCEPT ![r] = "fast"]
    /\ pc' = [pc EXCEPT ![r] = "setup"]
    /\ UNCHANGED <<apiVars, factoryVars, server, poolVars, lifeVars, lang, resp, bridgeVars>>

\* the unlocked test fails: go on to the lock (line 22 false)
GetEngineMiss(r) ==
    /\ EventLoopFree
    /\ pc[r] = "ge_check"
    /\ ~InCache(ENGINES, lang[r])
    /\ pc' = [pc EXCEPT ![r] = "ge_acquire"]
    /\ UNCHANGED <<apiVars, factoryVars, server, poolVars, lifeVars, lang, resp, engine, how, bridgeVars>>

\* async with ENGINE_LOCK (line 24)
GetEngineAcquire(r) ==
    /\ EventLoopFree
    /\ pc[r] = "ge_acquire"
    /\ ENGINE_LOCK = LockFree
    /\ ENGINE_LOCK' = r
    /\ pc' = [pc EXCEPT ![r] = "ge_locked"]
    /\ UNCHANGED <<apiVars, factoryVars, server, ENGINES, nbuilt, built, failures, cleared,
                   lifeVars, lang, resp, engine, how, bridgeVars>>

\* the re-check finds no entry: KokoroEngine(lang_code=lang_code) is called
\* (lines 26-27) and occupies the event loop until it returns or raises
GetEngineConstructBegin(r) ==
    /\ EventLoopFree
    /\ pc[r] = "ge_locked"
    /\ NeedsConstruct(ENGINES, lang[r])
    /\ pc' = [pc EXCEPT ![r] = "constructing"]
    /\ UNCHANGED <<apiVars, factoryVars, server, poolVars, lifeVars, lang,
                   resp, engine, how, bridgeVars>>

\* the constructor returns: store, return and release (lines 27-29)
GetEngineConstruct(r) ==
    /\ pc[r] = "constructing"
    /\ nbuilt' = nbuilt + 1
    /\ ENGINES' = StoreEngine(ENGINES, lang[r], nbuilt + 1)
    /\ built' = [built EXCEPT ![lang[r]] = @ + 1]
    /\ engine' = [engine EXCEPT ![r] = ENGINES'[lang[r]]]
    /\ how' = [how EXCEPT ![r] = "built"]
    /\ ENGINE_LOCK' = LockFree
    /\ pc' = [pc EXCEPT ![r] = "setup"]
    /\ UNCHANGED <<apiVars, factoryVars, server, failures, cleared, lifeVars, lang, resp, bridgeVars>>

\* the constructor raises (line 27): the exception releases the lock and
\* leaves get_engine and the generator
GetEngineConstructFail(r) ==
    /\ pc[r] = "constructing"
    /\ ENGINES' = EnginesAfterFailure(ENGINES, lang[r])
    /\ failures' = [failures EXCEPT ![lang[r]] = @ + 1]
    /\ ENGINE_LOCK' = ReleaseOnRaise(ENGINE_LOCK)
    /\ pc' = [pc EXCEPT ![r] = "failed"]
    /\ UNCHANGED <<apiVars, factoryVars, server, nbuilt, built, cleared, lifeVars, lang, resp,
                   engine, how, bridgeVars>>

\* re-check finds the entry another task stored: return it (lines 26, 29)
GetEngineRecheckHit(r) ==
    /\ EventLoopFree
    /\ pc[r] = "ge_locked"
    /\ ~NeedsConstruct(ENGINES, lang[r])
    /\ engine' = [engine EXCEPT ![r] = ENGINES[lang[r]]]
    /\ how' = [how EXCEPT ![r] = "recheck"]
    /\ ENGINE_LOCK' = LockFree
    /\ pc' = [pc EXCEPT ![r] = "setup"]
    /\ UNCHANGED <<apiVars, factoryVars, server, ENGINES, nbuilt, built, failures, cleared,
                   lifeVars, lang, resp, bridgeVars>>

(***************************************************************************)
(* stream_tts_bytes after get_engine returned: the bridge.                 *)
(***************************************************************************)

\* one queue and one event shared by every request
BridgeShared(r) == 1

\* the request whose q and done the callbacks of request r's session use:
\* on_chunk and on_stop close over the locals of their own call (lines 53-60)
Bridge(r) == r

\* the buffer put at the front of the queue
put_front(queue, b) == <<b>> \o queue

\* q.put_nowait(b) (line 57)
put_nowait(queue, b) == Append(queue, b)

\* the item q.get() returns and the queue it leaves (line 82)
get_item(queue) == Head(queue)
get_rest(queue) == Tail(queue)

\* on_stop that leaves the event as it is
event_unchanged(ev) == ev

\* done.set() (line 60): the value of the event afterwards
event_set(ev) == TRUE

\* the loop test without done.is_set(): break as soon as the queue is empty
BreakOnEmpty(r) == q[r] = <<>>

\* the loop test without q.empty(): break as soon as the event is set
BreakOnDone(r) == done[r]

\* done.is_set() and q.empty() (line 79)
ShouldBreak(r) == done[r] /\ q[r] = <<>>

\* a consumer that takes items only once the event is set
CanGetAfterDone(r) == q[r] # <<>> /\ done[r]

\* q.get() returns at once exactly when the queue holds an item (line 82)
CanGet(r) == q[r] # <<>>

\* the k-th buffer the session of request r produces
Chunk(r, k) == <<r, k>>

\* q, done, the callbacks, TextToAudioStream(...), play_async(...) and
\* feed(text) (lines 53-76)
Setup(r) ==
    /\ EventLoopFree
    /\ pc[r] = "setup"
    /\ q' = [q EXCEPT ![r] = <<>>]
    /\ done' = [done EXCEPT ![r] = FALSE]
    /\ sess' = [sess EXCEPT ![r] = "playing"]
    /\ pc' = [pc EXCEPT ![r] = "loop"]
    /\ UNCHANGED <<apiVars, factoryVars, server, poolVars, lifeVars, lang, resp, engine, how, enq, yielded>>

\* the session calls on_audio_chunk (lines 56-57)
OnChunk(r) ==
    /\ sess[r] = "playing"
    /\ Len(enq[r]) < MaxChunks
    /\ q' = [q EXCEPT ![Bridge(r)] = put_nowait(@, Chunk(r, Len(enq[r]) + 1))]
    /\ enq' = [enq EXCEPT ![r] = Append(@, Chunk(r, Len(enq[r]) + 1))]
    /\ UNCHANGED <<apiVars, factoryVars, server, poolVars, lifeVars, reqVars, done, sess, yielded>>

\* the session calls on_audio_stream_stop (lines 59-60)
OnStop(r) ==
    /\ sess[r] = "playing"
    /\ done' = [done EXCEPT ![Bridge(r)] = event_set(@)]
    /\ sess' = [sess EXCEPT ![r] = "stopped"]
    /\ UNCHANGED <<apiVars, factoryVars, server, poolVars, lifeVars, reqVars, q, enq, yielded>>

\* the session dies without calling on_audio_stream_stop
SessionAbort(r) ==
    /\ sess[r] = "playing"
    /\ sess' = [sess EXCEPT ![r] = "aborted"]
    /\ UNCHANGED <<apiVars, factoryVars, server, poolVars, lifeVars, reqVars, q, done, enq, yielded>>

\* if done.is_set() and q.empty(): break (lines 79-80); the generator ends
LoopBreak(r) ==
    /\ EventLoopFree
    /\ pc[r] = "loop"
    /\ ShouldBreak(r)
    /\ pc' = [pc EXCEPT ![r] = "finished"]
    /\ UNCHANGED <<apiVars, factoryVars, server, poolVars, lifeVars, lang, resp, engine, how, bridgeVars>>

\* no break, q.get() returns at once, yield chunk (lines 79, 82-83)
LoopGetNow(r) ==
    /\ EventLoopFree
    /\ pc[r] = "loop"
    /\ ~ShouldBreak(r)
    /\ CanGet(r)
    /\ yielded' = [yielded EXCEPT ![r] = Append(@, get_item(q[r]))]
    /\ q' = [q EXCEPT ![r] = get_rest(@)]
    /\ pc' = [pc EXCEPT ![r] = "yielded"]
    /\ UNCHANGED <<apiVars, factoryVars, server, poolVars, lifeVars, lang, resp, engine, how, done,
                   sess, enq>>

\* no break, q.get() has to wait: the generator is suspended in wait_for
LoopWait(r) ==
    /\ EventLoopFree
    /\ pc[r] = "loop"
    /\ ~ShouldBreak(r)
    /\ ~CanGet(r)
    /\ pc' = [pc EXCEPT ![r] = "waiting"]
    /\ UNCHANGED <<apiVars, factoryVars, server, poolVars, lifeVars, lang, resp, engine, how, bridgeVars>>

\* an item arrived during the wait: q.get() returns it, yield chunk
WaitGet(r) ==
    /\ EventLoopFree
    /\ pc[r] = "waiting"
    /\ CanGet(r)
    /\ yielded' = [yielded EXCEPT ![r] = Append(@, get_item(q[r]))]
    /\ q' = [q EXCEPT ![r] = get_rest(@)]
    /\ pc' = [pc EXCEPT ![r] = "yielded"]
    /\ UNCHANGED <<apiVars, factoryVars, server, poolVars, lifeVars, lang, resp, engine, how, done,
                   sess, enq>>

\* asyncio.TimeoutError after 0.1 s: continue (lines 84-85).  put_nowait is
\* called from the session's thread and does not wake the event loop, so the
\* timeout can fire although an item is in the queue; q.get() is cancelled
\* and takes nothing
WaitTimeout(r) ==
    /\ EventLoopFree
    /\ pc[r] = "waiting"
    /\ pc' = [pc EXCEPT ![r] = "loop"]
    /\ UNCHANGED <<apiVars, factoryVars, server, poolVars, lifeVars, lang, resp, engine, how, bridgeVars>>

\* StreamingResponse has sent the chunk and pulls the generator again
Pull(r) ==
    /\ EventLoopFree
    /\ pc[r] = "yielded"
    /\ pc' = [pc EXCEPT ![r] = "loop"]
    /\ UNCHANGED <<apiVars, factoryVars, server, poolVars, lifeVars, lang, resp, engine, how, bridgeVars>>

\* the client disconnects: the response task is cancelled and the generator
\* is closed where it is suspended, in wait_for (line 82) or at the yield
\* (line 83).  stream_tts_bytes has no finally block and never calls
\* stream.stop(): the session, its callbacks, q and done stay as they are
Cancel(r) ==
    /\ EventLoopFree
    /\ pc[r] \in {"waiting", "yielded"}
    /\ pc' = [pc EXCEPT ![r] = "cancelled"]
    /\ UNCHANGED <<apiVars, factoryVars, server, poolVars, lifeVars, lang,
                   resp, engine, how, bridgeVars>>

(***************************************************************************)
(* TTSFactory (src/factory.py) over the plugin registry.  The registry is  *)
(* the insertion-ordered mapping of realtimetts_plugins: its keys are kept *)
(* as a sequence, and the class registered under a name is identified by   *)
(* that name.  None is <<>>, a class is <<name>>.                          *)
(***************************************************************************)
PluginNames == {"xtts", "kokoro", "coqui"}
CreateNames == PluginNames \cup {"doesnotexist"}
KwargsValues == {<<>>, <<<<"device", "cpu">>>>, <<<<"device", "cuda">>>>}

IsRegistered(reg, name) == \E i \in 1..Len(reg) : reg[i] = name

\* get_registry(): the mapping, of which only the keys are used
get_registry(reg) == reg

\* get_plugin_class(name): the registered class, or None
get_plugin_class(reg, name) == IF IsRegistered(reg, name) THEN <<name>> ELSE <<>>

\* TTSFactory.engines() (lines 7-8)
engines(reg) == get_registry(reg)

\* create whose error names only the engine asked for
create_names_request(reg, name, kwargs) ==
    LET cls == get_plugin_class(reg, name)
    IN  IF cls = <<>>
        THEN [name |-> name, kwargs |-> kwargs, raised |-> "KeyError",
              listed |-> <<name>>, cls |-> <<>>, built_with |-> <<>>]
        ELSE [name |-> name, kwargs |-> kwargs, raised |-> "",
              listed |-> <<>>, cls |-> cls, built_with |-> kwargs]

\* TTSFactory.create(engine_name, **engine_kwargs) (lines 11-15): the
\* KeyError with the names of engines(), or cls(**engine_kwargs)
create(reg, name, kwargs) ==
    LET cls == get_plugin_class(reg, name)
    IN  IF cls = <<>>
        THEN [name |-> name, kwargs |-> kwargs, raised |-> "KeyError",
              listed |-> engines(reg), cls |-> <<>>, built_with |-> <<>>]
        ELSE [name |-> name, kwargs |-> kwargs, raised |-> "",
              listed |-> <<>>, cls |-> cls, built_with |-> kwargs]

\* a plugin module is loaded: @register_plugin stores its class under key()
Register(name) ==
    /\ ~IsRegistered(registry, name)
    /\ registry' = Append(registry, name)
    /\ UNCHANGED <<apiVars, fres, server, poolVars, lifeVars, reqVars,
                   bridgeVars>>

\* a caller runs TTSFactory.create(name, **kwargs)
Create(name, kwargs) ==
    /\ fres' = <<create(registry, name, kwargs)>>
    /\ UNCHANGED <<apiVars, registry, server, poolVars, lifeVars, reqVars,
                   bridgeVars>>

(***************************************************************************)
(* Specifications.                                                         *)
(***************************************************************************)
Lifecycle ==
    \/ AppStartup
    \/ AppShutdown
    \/ LifespanAcquire
    \/ LifespanPreloadBuild
    \/ LifespanPreloadFail
    \/ LifespanPreloadSkip
    \/ LifespanYield
    \/ LifespanShutdownAcquire
    \/ LifespanClear

Handler(r) ==
    \/ Tts(r)
    \/ ResponseStart(r)
    \/ GetEngineFast(r)
    \/ GetEngineMiss(r)
    \/ GetEngineAcquire(r)
    \/ GetEngineConstructBegin(r)
    \/ GetEngineConstruct(r)
    \/ GetEngineConstructFail(r)
    \/ GetEngineRecheckHit(r)
    \/ Setup(r)

Consumer(r) ==
    \/ LoopBreak(r)
    \/ LoopGetNow(r)
    \/ LoopWait(r)
    \/ WaitGet(r)
    \/ WaitTimeout(r)
    \/ Pull(r)

Session(r) ==
    \/ OnChunk(r)
    \/ OnStop(r)
    \/ SessionAbort(r)

Next ==
    \/ Lifecycle
    \/ \E r \in Requests : Handler(r)
    \/ \E r \in Requests : Consumer(r)
    \/ \E r \in Requests : Session(r)

Spec == Init /\ [][Next]_vars

\* The engine pool alone: the lifecycle and every handler up to the return of
\* get_engine.  The bridge reads and writes none of the pool's variables.
PoolHandler(r) ==
    \/ Tts(r)
    \/ ResponseStart(r)
    \/ GetEngineFast(r)
    \/ GetEngineMiss(r)
    \/ GetEngineAcquire(r)
    \/ GetEngineConstructBegin(r)
    \/ GetEngineConstruct(r)
    \/ GetEngineConstructFail(r)
    \/ GetEngineRecheckHit(r)

PoolNext ==
    \/ Lifecycle
    \/ \E r \in Requests : PoolHandler(r)

PoolSpec == Init /\ [][PoolNext]_vars

\* The endpoint with its query string, up to the start of the session.
ApiHandler(r) ==
    \/ TtsRequest(r)
    \/ ResponseStart(r)
    \/ GetEngineFast(r)
    \/ GetEngineMiss(r)
    \/ GetEngineAcquire(r)
    \/ GetEngineConstructBegin(r)
    \/ GetEngineConstruct(r)
    \/ GetEngineConstructFail(r)
    \/ GetEngineRecheckHit(r)
    \/ Setup(r)

ApiNext ==
    \/ AppStartup
    \/ \E r \in Requests : ApiHandler(r)

ApiSpec == Init /\ [][ApiNext]_vars

\* The factory and the registry alone.
FactoryNext ==
    \/ \E name \in PluginNames : Register(name)
    \/ \E name \in CreateNames : \E kwargs \in KwargsValues : Create(name, kwargs)

FactorySpec == Init /\ [][FactoryNext]_vars

\* The bridge alone, from the state in which every request has its engine
\* handle (line 51 has returned): the first request built the engine for "a",
\* the others took it from the cache.  The pool does not change afterwards.
BridgeInit ==
    /\ server = "serving"
    /\ ENGINES = [l \in Langs |-> IF l = "a" THEN 1 ELSE NoEngine]
    /\ ENGINE_LOCK = LockFree
    /\ lifespan = "unentered"
    /\ li = 1
    /\ nbuilt = 1
    /\ built = [l \in Langs |-> IF l = "a" THEN 1 ELSE 0]
    /\ failures = [l \in Langs |-> 0]
    /\ cleared = FALSE
    /\ pc = [r \in Requests |-> "setup"]
    /\ lang = [r \in Requests |-> "a"]
    /\ resp = [r \in Requests |-> "200"]
    /\ engine = [r \in Requests |-> 1]
    /\ how = [r \in Requests |-> IF r = 1 THEN "built" ELSE "fast"]
    /\ q = [r \in Requests |-> <<>>]
    /\ done = [r \in Requests |-> FALSE]
    /\ sess = [r \in Requests |-> "none"]
    /\ enq = [r \in Requests |-> <<>>]
    /\ yielded = [r \in Requests |-> <<>>]
    /\ query = [r \in Requests |-> <<>>]
    /\ args = [r \in Requests |-> <<>>]
    /\ registry = <<>>
    /\ fres = <<>>

BridgeNext ==
    \/ \E r \in Requests : Setup(r)
    \/ \E r \in Requests : Consumer(r)
    \/ \E r \in Requests : Session(r)

BridgeSpec == BridgeInit /\ [][BridgeNext]_vars

\* The bridge with clients that may disconnect in mid-stream.
CancelNext ==
    \/ BridgeNext
    \/ \E r \in Requests : Cancel(r)

CancelSpec == BridgeInit /\ [][CancelNext]_vars

\* the event loop keeps running the generator and the response keeps pulling
\* it; nothing is assumed of the session's thread
\* the steps of lifespan() made while it holds the lock
PoolCritical ==
    \/ LifespanPreloadBuild
    \/ LifespanPreloadFail
    \/ LifespanPreloadSkip
    \/ LifespanYield
    \/ LifespanClear

\* the steps of get_engine as called by request r
GetEngine(r) ==
    \/ GetEngineFast(r)
    \/ GetEngineMiss(r)
    \/ GetEngineAcquire(r)
    \/ GetEngineConstructBegin(r)
    \/ GetEngineConstruct(r)
    \/ GetEngineConstructFail(r)
    \/ GetEngineRecheckHit(r)

\* the event loop runs every ready coroutine: no critical section awaits, and
\* a task waiting for the lock is woken when the lock is released
FairPoolSpec ==
    /\ PoolSpec
    /\ WF_vars(PoolCritical)
    /\ \A r \in Requests : WF_vars(GetEngine(r))

FairSpec == Spec /\ \A r \in Requests : WF_vars(Consumer(r))

FairBridgeSpec == BridgeSpec /\ \A r \in Requests : WF_vars(Consumer(r))

\* the bridge starts from a state the whole service reaches
BridgeInitReached ==
    /\ server = "serving"
    /\ ENGINES = [l \in Langs |-> IF l = "a" THEN 1 ELSE NoEngine]
    /\ ENGINE_LOCK = LockFree
    /\ lifespan = "unentered"
    /\ nbuilt = 1
    /\ failures = [l \in Langs |-> 0]
    /\ pc = [r \in Requests |-> "setup"]
    /\ lang = [r \in Requests |-> "a"]
    /\ resp = [r \in Requests |-> "200"]
    /\ how = [r \in Requests |-> IF r = 1 THEN "built" ELSE "fast"]
    /\ sess = [r \in Requests |-> "none"]

(***************************************************************************)
(* Properties.                                                             *)
(***************************************************************************)
IsPrefix(s, t) == Len(s) <= Len(t) /\ SubSeq(t, 1, Len(s)) = s

Returned(r) == how[r] # "none"

\* C1: for every request the chunks yielded so far are a prefix of the chunks
\* its session passed to on_chunk, and when the generator has terminated the
\* two sequences are equal (same order, nothing twice).
C1_ChunkOrder ==
    \A r \in Requests :
        /\ IsPrefix(yielded[r], enq[r])
        /\ pc[r] = "finished" => yielded[r] = enq[r]

\* a generator that terminated after yielding two chunks
C1_Witness ==
    \E r \in Requests : pc[r] = "finished" /\ Len(yielded[r]) >= 2

\* C2: whatever the interleaving of on_chunk / on_stop with the consumer
\* loop, no chunk is lost: what was yielded followed by what is queued is
\* what was enqueued, the generator never terminates with a chunk in its
\* queue, and at termination every enqueued chunk occurs among the yielded.
C2_NoChunkDropped ==
    \A r \in Requests :
        /\ yielded[r] \o q[r] = enq[r]
        /\ pc[r] = "finished" =>
              /\ q[r] = <<>>
              /\ \A i \in 1..Len(enq[r]) :
                    \E j \in 1..Len(yielded[r]) : yielded[r][j] = enq[r][i]

\* on_stop has set the event while two chunks are still queued, and the
\* consumer is suspended in a poll that can now time out
C2_Witness ==
    \E r \in Requests : done[r] /\ Len(q[r]) >= 2 /\ pc[r] = "waiting"

\* C3: once the session has called on_stop, the generator (kept running and
\* pulled) terminates; after the event is set it never starts another wait,
\* so at most the poll in progress times out; once terminated it stays
\* terminated and yields nothing more.
C3_TerminatesAfterStop ==
    /\ \A r \in Requests : (sess[r] = "stopped") ~> (pc[r] = "finished")
    /\ [][\A r \in Requests :
            done[r] /\ pc[r] # "waiting" => pc'[r] # "waiting"]_vars
    /\ [][\A r \in Requests :
            pc[r] = "finished" =>
                pc'[r] = "finished" /\ yielded'[r] = yielded[r]]_vars

\* a generator that terminated after on_stop with its chunks drained
C3_Witness ==
    \E r \in Requests :
        /\ sess[r] = "stopped"
        /\ pc[r] = "finished"
        /\ done[r]
        /\ yielded[r] # <<>>
        /\ q[r] = <<>>

\* C4: calls of get_engine that race on the same uncached lang (each found
\* the unlocked test false) all return one instance, for which exactly one
\* construction took place, performed by exactly one of them or by none.
C4_RaceOneConstruction ==
    ~cleared =>
        \A r1, r2 \in Requests :
            ( /\ r1 # r2
              /\ lang[r1] = lang[r2]
              /\ how[r1] \in {"built", "recheck"}
              /\ how[r2] \in {"built", "recheck"} )
            => /\ engine[r1] = engine[r2]
               /\ engine[r1] = ENGINES[lang[r1]]
               /\ built[lang[r1]] = 1
               /\ ~(how[r1] = "built" /\ how[r2] = "built")

\* two calls raced on a lang: one constructed, the other found the entry in
\* the re-check under the lock
C4_Witness ==
    \E r1, r2 \in Requests :
        /\ lang[r1] = lang[r2]
        /\ how[r1] = "built"
        /\ how[r2] = "recheck"
        /\ ~cleared

\* C5: until ENGINES.clear() runs, every lang is constructed at most once
\* over the preload and all get_engine calls, and every call that returned
\* holds the instance stored for its lang.
C5_AtMostOnePerLang ==
    ~cleared =>
        /\ \A l \in Langs : built[l] <= 1
        /\ \A l \in Langs : InCache(ENGINES, l) => built[l] = 1
        /\ \A r \in Requests : Returned(r) => engine[r] = ENGINES[lang[r]]

\* after the preload one call took a preloaded engine from the cache while
\* another call built the engine of a lang that is not preloaded
C5_Witness ==
    /\ lifespan = "yielded"
    /\ \E r1, r2 \in Requests :
        /\ how[r1] = "fast"
        /\ lang[r1] = PRELOAD_LANGS[1]
        /\ how[r2] = "built"
        /\ lang[r2] \notin {PRELOAD_LANGS[i] : i \in 1..Len(PRELOAD_LANGS)}

\* C6: a construction that fails inside get_engine propagates to the caller,
\* leaves ENGINES as it was with no entry for the lang, and releases the
\* lock; an entry is only ever an instance a constructor returned, so a later
\* call for the lang constructs again.
C6_FailureNotCached ==
    /\ [][\A r \in Requests :
            (pc[r] = "constructing" /\ pc'[r] = "failed") =>
                /\ ENGINES' = ENGINES
                /\ ~InCache(ENGINES', lang[r])
                /\ ENGINE_LOCK' = LockFree]_vars
    /\ [](\A l \in Langs : ENGINES[l] \in 0..nbuilt)
    /\ [](\A r \in Requests : Returned(r) => engine[r] \in 1..nbuilt)
    /\ [](\A l \in Langs :
            (failures[l] > 0 /\ built[l] = 0) => ~InCache(ENGINES, l))

\* a call failed to construct a lang and a later call constructed it
C6_Witness ==
    \E r1, r2 \in Requests :
        /\ lang[r1] = lang[r2]
        /\ pc[r1] = "failed"
        /\ how[r2] = "built"
        /\ failures[lang[r1]] = 1
        /\ ~cleared

\* C7: a request whose engine construction failed has received a server
\* error and no 200 status line.
C7_ServerErrorOnFailure ==
    \A r \in Requests : pc[r] = "failed" => resp[r] = "500"

\* C8: while the application serves requests ENGINES holds every lang of
\* PRELOAD_LANGS, and after its shutdown ENGINES is empty.
C8_PreloadedWhileServing ==
    /\ server = "serving" =>
          \A i \in 1..Len(PRELOAD_LANGS) : InCache(ENGINES, PRELOAD_LANGS[i])
    /\ server = "stopped" => \A l \in Langs : ~InCache(ENGINES, l)

\* C9: every chunk the session enqueues is eventually yielded by the
\* generator (kept running and pulled), whether or not on_stop is ever
\* called.
C9_Incremental ==
    \A r \in Requests : \A k \in 1..MaxChunks :
        (Len(enq[r]) >= k) ~> (Len(yielded[r]) >= k)

\* the first chunk was yielded while the session is still producing
C9_Witness ==
    \E r \in Requests :
        /\ sess[r] = "playing"
        /\ ~done[r]
        /\ Len(yielded[r]) >= 1
        /\ Len(enq[r]) < MaxChunks

\* C10: a generator yields only chunks of its own session, and its event is
\* set, and it terminates, only after its own session called on_stop.
C10_RequestsIndependent ==
    \A r \in Requests :
        /\ \A i \in 1..Len(yielded[r]) : yielded[r][i][1] = r
        /\ \A i \in 1..Len(q[r]) : q[r][i][1] = r
        /\ done[r] => sess[r] = "stopped"
        /\ pc[r] = "finished" => sess[r] = "stopped"

\* two requests on the same engine instance: one has terminated, the other
\* is still streaming its own chunks
C10_Witness ==
    \E r1, r2 \in Requests :
        /\ r1 # r2
        /\ engine[r1] = engine[r2]
        /\ pc[r1] = "finished"
        /\ yielded[r1] # <<>>
        /\ sess[r2] = "playing"
        /\ yielded[r2] # <<>>

\* C11: GET /tts is accepted exactly when text is present and non-empty and
\* speed, when given, lies in [0.5, 2.0], both ends included; an accepted
\* request is bound with voice "af_heart", lang "a" and speed 1.0 for the
\* parameters it lacks; any other request gets 422, binds nothing, obtains no
\* engine, starts no session and constructs no engine.
C11_ValidationBoundary ==
    /\ [](\A r \in Requests : query[r] # <<>> =>
            LET qr == query[r][1]
                ok == /\ qr.text # <<>>
                      /\ Len(qr.text[1]) >= 1
                      /\ qr.speed # <<>> =>
                            (qr.speed[1] >= MinSpeed /\ qr.speed[1] <= MaxSpeed)
            IN  /\ ok <=> pc[r] # "rejected"
                /\ ok <=> args[r] # <<>>
                /\ ok => /\ args[r][1].text = qr.text[1]
                         /\ args[r][1].voice =
                               (IF qr.voice = <<>> THEN "af_heart" ELSE qr.voice[1])
                         /\ args[r][1].lang =
                               (IF qr.lang = <<>> THEN "a" ELSE qr.lang[1])
                         /\ args[r][1].speed =
                               (IF qr.speed = <<>> THEN 100 ELSE qr.speed[1])
                         /\ lang[r] = args[r][1].lang
                /\ ~ok => /\ resp[r] = "422"
                          /\ engine[r] = NoEngine
                          /\ how[r] = "none"
                          /\ sess[r] = "none")
    /\ [][\A r \in Requests :
            (pc[r] = "idle" /\ pc'[r] = "rejected") =>
                /\ nbuilt' = nbuilt
                /\ ENGINES' = ENGINES
                /\ ENGINE_LOCK' = ENGINE_LOCK]_vars
    /\ [][\A r \in Requests : pc[r] = "rejected" => pc'[r] = "rejected"]_vars

\* one request with speed 0.5 and one with speed 2.0 were accepted and have
\* started their sessions
C11_Witness ==
    \E r1, r2 \in Requests :
        /\ query[r1] # <<>> /\ query[r1][1].speed = <<MinSpeed>>
        /\ query[r2] # <<>> /\ query[r2][1].speed = <<MaxSpeed>>
        /\ sess[r1] = "playing"
        /\ sess[r2] = "playing"

\* C12: TTSFactory.create(name, **kwargs) returns an instance of the class
\* registered under name, built with kwargs, when name is registered;
\* otherwise it raises KeyError listing exactly the registered names; either
\* way the registry is unchanged.
C12_FactoryCreate ==
    [][fres' # fres =>
        LET f == fres'[1]
        IN  /\ registry' = registry
            /\ IsRegistered(registry, f.name) =>
                  /\ f.raised = ""
                  /\ f.cls = <<f.name>>
                  /\ f.built_with = f.kwargs
            /\ ~IsRegistered(registry, f.name) =>
                  /\ f.raised = "KeyError"
                  /\ f.cls = <<>>
                  /\ f.listed = registry]_vars

\* create("doesnotexist") raised KeyError listing two registered engines
C12_Witness ==
    /\ fres # <<>>
    /\ fres[1].name = "doesnotexist"
    /\ fres[1].raised = "KeyError"
    /\ Len(fres[1].listed) = 2
    /\ fres[1].listed = registry

\* C13: the generator terminates only by a step taken with the event set and
\* the queue empty; while its session has not called on_stop it is neither
\* terminated nor failed; and when the session died without on_stop the
\* generator (kept running) is polling again and again, for ever.
C13_HangsWithoutStop ==
    /\ [][\A r \in Requests :
            (pc[r] # "finished" /\ pc'[r] = "finished") =>
                (done[r] /\ q[r] = <<>>)]_vars
    /\ [](\A r \in Requests :
            sess[r] \in {"playing", "aborted"} =>
                pc[r] \in {"loop", "waiting", "yielded"})
    /\ \A r \in Requests : [](sess[r] = "aborted" => <>(pc[r] = "waiting"))

\* a session died without on_stop after one chunk: the chunk was yielded and
\* the generator sits in a poll on its empty queue
C13_Witness ==
    \E r \in Requests :
        /\ sess[r] = "aborted"
        /\ ~done[r]
        /\ Len(yielded[r]) = 1
        /\ q[r] = <<>>
        /\ pc[r] = "waiting"

\* C14: once a disconnect has closed the generator of a request, its
\* session has been told to stop producing (it is no longer playing) and its
\* queue is released (it holds no chunk), so nothing is enqueued afterwards.
C14_CancelStopsSession ==
    \A r \in Requests :
        pc[r] = "cancelled" => (sess[r] # "playing" /\ q[r] = <<>>)

\* C15: while one request is inside the constructor of an uncached lang, a
\* request for another lang that is already in ENGINES is not blocked: its
\* get_engine can return the cached engine.
C15_CachedNotBlocked ==
    \A r1, r2 \in Requests :
        ( /\ pc[r1] = "constructing"
          /\ pc[r2] = "ge_check"
          /\ lang[r2] # lang[r1]
          /\ ENGINES[lang[r2]] # NoEngine )
        => ENABLED GetEngineFast(r2)

\* C16: a get_engine call that finds its lang in ENGINES returns the cached
\* instance and leaves ENGINE_LOCK and ENGINES as they are; a request takes
\* the lock only after the unlocked test found no entry for its lang.
C16_FastPathLockFree ==
    [][\A r \in Requests :
          /\ ( /\ pc[r] = "ge_check"
               /\ pc'[r] # "ge_check"
               /\ ENGINES[lang[r]] # NoEngine )
             => /\ pc'[r] = "setup"
                /\ engine'[r] = ENGINES[lang[r]]
                /\ ENGINE_LOCK' = ENGINE_LOCK
                /\ ENGINES' = ENGINES
          /\ (ENGINE_LOCK' = r /\ ENGINE_LOCK # r) => pc[r] = "ge_acquire"
          /\ (pc'[r] = "ge_acquire" /\ pc[r] # "ge_acquire")
             => ENGINES[lang[r]] = NoEngine]_vars

\* a request was served from the cache while another task held the lock
C16_Witness ==
    \E r \in Requests :
        /\ how[r] = "fast"
        /\ pc[r] = "setup"
        /\ ENGINE_LOCK \in Requests \ {r}

\* the tasks that are inside a critical section of ENGINE_LOCK
InCritical ==
    {r \in Requests : pc[r] \in {"ge_locked", "constructing"}}
        \cup (IF lifespan \in {"preload", "clearing"} THEN {LifespanTask} ELSE {})

LockDiscipline ==
    /\ Cardinality(InCritical) <= 1
    /\ ENGINE_LOCK # LockFree => InCritical = {ENGINE_LOCK}
    /\ ENGINE_LOCK = LockFree => InCritical = {}

\* C17: at most one of get_engine, preload and clear is inside a critical
\* section, the lock is held exactly while its holder is inside one (so it is
\* released on every exit, a raising constructor included), and a get_engine
\* call that waits for the lock obtains it.
C17_LockReleased ==
    /\ []LockDiscipline
    /\ \A r \in Requests : (pc[r] = "ge_acquire") ~> (pc[r] = "ge_locked")

\* after a construction raised, another call holds the lock
C17_Witness ==
    \E r1, r2 \in Requests :
        /\ pc[r1] = "failed"
        /\ pc[r2] = "ge_locked"
        /\ ENGINE_LOCK = r2

\* C18: before the shutdown clear a stored entry of ENGINES is never replaced
\* or removed, and a step of get_engine(lang) leaves the entry of every other
\* lang as it is.
C18_EntriesStable ==
    [][ /\ ~(lifespan = "clearing" /\ lifespan' = "exited")
           => \A l \in Langs : ENGINES[l] # NoEngine => ENGINES'[l] = ENGINES[l]
        /\ \A r \in Requests :
              (pc[r] \in {"ge_check", "ge_acquire", "ge_locked", "constructing"}
               /\ pc'[r] # pc[r])
              => \A l \in Langs \ {lang[r]} : ENGINES'[l] = ENGINES[l] ]_vars

\* get_engine stored an entry next to entries that were already there
C18_Witness ==
    /\ ~cleared
    /\ \E r \in Requests :
          /\ how[r] = "built"
          /\ ENGINES[lang[r]] = engine[r]
          /\ Cardinality({l \in Langs : ENGINES[l] # NoEngine}) >= 3

=============================================================================
